---- MODULE Spec2Model ----
(***************************************************************************)
(* serve-index (src/index.ts): the request handler returned by             *)
(* serveIndex(root, options), as a state machine of one request.           *)
(*                                                                         *)
(* Strings are sequences of one-character strings, so that prefix tests,   *)
(* path normalisation, sorting and serialisation are computed and not      *)
(* assumed.  Paths are POSIX paths (sep = "/").  The filesystem, the       *)
(* request and the options are drawn in Init; the callbacks of the         *)
(* asynchronous filesystem operations are the actions.                     *)
(***************************************************************************)
EXTENDS Integers, Sequences, FiniteSets, TLC

VARIABLES
  rootPath,    \* serveIndex: const rootPath (line 79)
  hidden,      \* opts.hidden
  filter,      \* opts.filter: [kind |-> "none"] or a predicate
  template,    \* opts.template: "file" (a path) or "function"
  req,         \* the request: [method, url, accept]
  fs,          \* the filesystem the request meets
  pc,          \* where the request is: start, probing, reading, ...
  path,        \* handler local `path` (line 108)
  showUp,      \* handler local `showUp` (line 120)
  files,       \* the `files` array handed to the renderer and to stat()
  type,        \* the negotiated media type (line 151), or "unset"
  batch,       \* the Batch built by stat(): index, pending, results, ...
  fileList,    \* the renderer's `fileList` after fileList.sort(fileSort)
  res,         \* the ServerResponse: statusCode, headers, body, ended
  nextCalls,   \* every call of next(), in order
  fsOps,       \* every filesystem operation issued, in order
  filterCalls, \* every call of opts.filter, in order
  confined     \* TRUE once the confinement check (line 114) has passed

vars == <<rootPath, hidden, filter, template, req, fs, pc, path, showUp, files,
          type, batch, fileList, res, nextCalls, fsOps, filterCalls, confined>>

(***************************************************************************)
(* Bounds of the model.                                                    *)
(***************************************************************************)
MaxPathLen == 5      \* longest request path, in URL tokens
MaxEntries == 3      \* most directory entries of a listing in Spec
MaxAccept == 2       \* most media ranges of an Accept header
ExtraStat == 1       \* entries beyond the concurrency limit in SpecStat

(***************************************************************************)
(* Characters and strings.                                                 *)
(***************************************************************************)
sep == "/"
NUL == "\\0"
Dot == <<".">>
DotDot == <<".", ".">>

Min(a, b) == IF a <= b THEN a ELSE b

\* the value of an expression, evaluated once: S is the set of that one value
\* (arguments are passed by value in the source)
Value(S) == CHOOSE v \in S : TRUE

\* a search that finds nothing
ContainsNothing(s, c) == FALSE

\* String.prototype.indexOf(c) !== -1
Contains(s, c) == \E i \in 1..Len(s) : s[i] = c

\* String.prototype.substr(0, n)
Substr0(s, n) == SubSeq(s, 1, Min(n, Len(s)))

IsPrefix(p, s) == Len(p) <= Len(s) /\ SubSeq(s, 1, Len(p)) = p

RECURSIVE Concat(_)
Concat(ss) == IF ss = <<>> THEN <<>> ELSE Head(ss) \o Concat(Tail(ss))

\* Array.prototype.join(glue)
RECURSIVE JoinWith(_, _)
JoinWith(ss, glue) ==
  IF ss = <<>> THEN <<>>
  ELSE IF Len(ss) = 1 THEN ss[1]
  ELSE ss[1] \o glue \o JoinWith(Tail(ss), glue)

(***************************************************************************)
(* node:path (posix): normalize, join, resolve.                            *)
(***************************************************************************)
RECURSIVE SplitAcc(_, _, _)
SplitAcc(s, segs, cur) ==
  IF s = <<>> THEN Append(segs, cur)
  ELSE IF Head(s) = sep
    THEN Value({SplitAcc(Tail(s), done, <<>>) : done \in {Append(segs, cur)}})
  ELSE Value({SplitAcc(Tail(s), segs, more) : more \in {Append(cur, Head(s))}})

\* the segments of s between separators (empty segments kept)
Split(s) == Value({SplitAcc(str, <<>>, <<>>) : str \in {s}})

\* normalizeString: drop "" and ".", resolve ".." against the segment before
RECURSIVE NormSegs(_, _, _)
NormSegs(segs, acc, allowAboveRoot) ==
  IF segs = <<>> THEN acc
  ELSE Value({
    IF s = <<>> \/ s = Dot THEN NormSegs(rest, acc, allowAboveRoot)
    ELSE IF s = DotDot
      THEN IF acc # <<>> /\ acc[Len(acc)] # DotDot
             THEN Value({NormSegs(rest, up, allowAboveRoot) :
                           up \in {SubSeq(acc, 1, Len(acc) - 1)}})
           ELSE IF allowAboveRoot
             THEN Value({NormSegs(rest, up, allowAboveRoot) :
                           up \in {Append(acc, DotDot)}})
           ELSE NormSegs(rest, acc, allowAboveRoot)
    ELSE Value({NormSegs(rest, down, allowAboveRoot) : down \in {Append(acc, s)}})
    : s \in {Head(segs)}, rest \in {Tail(segs)}})

normalize(p) ==
  Value({
    IF str = <<>> THEN Dot
    ELSE LET isAbsolute == str[1] = sep
             trailingSeparator == str[Len(str)] = sep
         IN Value({
              IF body = <<>>
                THEN IF isAbsolute THEN <<sep>>
                     ELSE IF trailingSeparator THEN <<".", sep>> ELSE Dot
              ELSE (IF isAbsolute THEN <<sep>> ELSE <<>>) \o body
                   \o (IF trailingSeparator THEN <<sep>> ELSE <<>>)
              : body \in {Value({JoinWith(norm, <<sep>>) :
                                   norm \in {NormSegs(Split(str), <<>>, ~isAbsolute)}})}})
    : str \in {p}})

\* join(a, b): the non-empty arguments glued with sep, then normalized
join(a, b) ==
  IF a = <<>> /\ b = <<>> THEN Dot
  ELSE IF b = <<>> THEN normalize(a)
  ELSE IF a = <<>> THEN normalize(b)
  ELSE normalize(a \o <<sep>> \o b)

\* resolve(p) of an absolute p: normalized, without a trailing separator
resolve(p) ==
  <<sep>> \o Value({JoinWith(norm, <<sep>>) : norm \in {NormSegs(Split(p), <<>>, FALSE)}})

(***************************************************************************)
(* Entry names: code units, lower-casing and collation.                    *)
(***************************************************************************)
\* a character outside ASCII (U+00E9), written as one token
EAcute == "U+00E9"

\* the UTF-16 code unit of a character (String comparison of files.sort())
CharCode(c) ==
  CASE c = "." -> 46 [] c = "A" -> 65 [] c = "B" -> 66
    [] c = "a" -> 97 [] c = "b" -> 98 [] c = "d" -> 100 [] c = "e" -> 101
    [] c = "h" -> 104 [] c = "i" -> 105 [] c = "n" -> 110 [] c = "t" -> 116
    [] c = "x" -> 120 [] c = EAcute -> 233

\* String.prototype.toLocaleLowerCase, per character
LowerChar(c) == CASE c = "A" -> "a" [] c = "B" -> "b" [] OTHER -> c

toLocaleLowerCase(s) == [i \in 1..Len(s) |-> LowerChar(s[i])]

\* the collation rank of a lower-case character: punctuation before letters,
\* letters in alphabetical order, an accented letter right after its base
CollationRank(c) ==
  CASE c = "." -> 0 [] c = "a" -> 1 [] c = "b" -> 2 [] c = "d" -> 4
    [] c = "e" -> 5 [] c = "h" -> 8 [] c = "i" -> 9 [] c = "n" -> 14
    [] c = "t" -> 20 [] c = "x" -> 24 [] c = EAcute -> 6

\* the first position where a and b differ, or 0 when one is a prefix of the other
FirstDiff(a, b) ==
  LET d == {i \in 1..Min(Len(a), Len(b)) : a[i] # b[i]}
  IN IF d = {} THEN 0 ELSE CHOOSE i \in d : \A j \in d : i <= j

Sign(n) == IF n < 0 THEN -1 ELSE IF n > 0 THEN 1 ELSE 0

\* the default comparator of Array.prototype.sort(): by code units
defaultCompare(a, b) ==
  LET k == FirstDiff(a, b)
  IN IF k = 0 THEN Sign(Len(a) - Len(b))
     ELSE Sign(CharCode(a[k]) - CharCode(b[k]))

\* String.prototype.localeCompare on lower-cased names
localeCompare(a, b) ==
  LET k == FirstDiff(a, b)
  IN IF k = 0 THEN Sign(Len(a) - Len(b))
     ELSE Sign(CollationRank(a[k]) - CollationRank(b[k]))

(***************************************************************************)
(* Array.prototype.sort is stable: insertion, left to right, each element  *)
(* placed before the first one it compares less than.                      *)
(***************************************************************************)
FirstOf(S) == CHOOSE j \in S : \A k \in S : j <= k

InsertAt(sorted, x, after) ==
  LET pos == IF after = {} THEN Len(sorted) + 1 ELSE FirstOf(after)
  IN SubSeq(sorted, 1, pos - 1) \o <<x>> \o SubSeq(sorted, pos, Len(sorted))

InsertName(sorted, x) ==
  InsertAt(sorted, x, {j \in 1..Len(sorted) : defaultCompare(x, sorted[j]) < 0})

RECURSIVE SortNamesFrom(_, _)
SortNamesFrom(sorted, rest) ==
  IF rest = <<>> THEN sorted
  ELSE Value({SortNamesFrom(longer, Tail(rest)) : longer \in {InsertName(sorted, Head(rest))}})

\* files.sort() (line 147)
SortNames(names) == Value({SortNamesFrom(<<>>, list) : list \in {names}})

(***************************************************************************)
(* fileSort (lines 332-341) over StatEntry = [name, stat], stat one of     *)
(* "dir", "file", "null".                                                  *)
(***************************************************************************)
IsDirNum(e) == IF e.stat = "dir" THEN 1 ELSE 0

\* fileSort without its directories-first term
fileSortByNameOnly(a, b) ==
  IF a.name = DotDot \/ b.name = DotDot
    THEN IF a.name = b.name THEN 0
         ELSE IF a.name = DotDot THEN -1 ELSE 1
  ELSE localeCompare(toLocaleLowerCase(a.name), toLocaleLowerCase(b.name))

fileSort(a, b) ==
  IF a.name = DotDot \/ b.name = DotDot
    THEN IF a.name = b.name THEN 0
         ELSE IF a.name = DotDot THEN -1 ELSE 1
  ELSE IF IsDirNum(b) - IsDirNum(a) # 0 THEN IsDirNum(b) - IsDirNum(a)
  ELSE localeCompare(toLocaleLowerCase(a.name), toLocaleLowerCase(b.name))

InsertEntry(sorted, x) ==
  InsertAt(sorted, x, {j \in 1..Len(sorted) : fileSort(x, sorted[j]) < 0})

RECURSIVE SortFileListFrom(_, _)
SortFileListFrom(sorted, rest) ==
  IF rest = <<>> THEN sorted
  ELSE Value({SortFileListFrom(longer, Tail(rest)) : longer \in {InsertEntry(sorted, Head(rest))}})

\* fileList.sort(fileSort) (lines 179, 214, 235)
SortFileList(list) == Value({SortFileListFrom(<<>>, entries) : entries \in {list}})

\* a filter that drops nothing
removeHiddenNothing(names) == names

\* removeHidden (lines 513-517)
removeHidden(names) == SelectSeq(names, LAMBDA f : f = <<>> \/ f[1] # ".")

(***************************************************************************)
(* Content negotiation: accepts(req).type(mediaTypes) (lines 150-151),     *)
(* i.e. negotiator's preferredMediaTypes.  A media range of the Accept     *)
(* header is [type, subtype, q], q in tenths.                              *)
(***************************************************************************)
mediaTypes == <<"text/html", "text/plain", "application/json">>

parseMediaType(t) ==
  CASE t = "text/html" -> [type |-> "text", subtype |-> "html"]
    [] t = "text/plain" -> [type |-> "text", subtype |-> "plain"]
    [] t = "application/json" -> [type |-> "application", subtype |-> "json"]

\* mediaType (lines 56-60): the renderer of a media type
mediaType(t) ==
  CASE t = "text/html" -> "html"
    [] t = "text/plain" -> "plain"
    [] t = "application/json" -> "json"

NoPriority == [ok |-> FALSE, i |-> 0, o |-> -1, q |-> 0, s |-> 0]

\* specify: how the range `spec` (o-th of the header) matches the offered type
specify(t, spec, index, o) ==
  LET p == parseMediaType(t)
  IN IF spec.type # p.type /\ spec.type # "*" THEN NoPriority
     ELSE IF spec.subtype # p.subtype /\ spec.subtype # "*" THEN NoPriority
     ELSE [ok |-> TRUE, i |-> index, o |-> o, q |-> spec.q,
           s |-> (IF spec.type = p.type THEN 4 ELSE 0)
                 + (IF spec.subtype = p.subtype THEN 2 ELSE 0)]

\* (priority.s - spec.s || priority.q - spec.q || priority.o - spec.o) < 0
Outranks(spec, priority) ==
  IF priority.s # spec.s THEN priority.s < spec.s
  ELSE IF priority.q # spec.q THEN priority.q < spec.q
  ELSE priority.o < spec.o

\* getMediaTypePriority: the best match of the offered type among the ranges
RECURSIVE PriorityFrom(_, _, _, _, _)
PriorityFrom(priority, t, accepted, index, k) ==
  IF k > Len(accepted) THEN priority
  ELSE Value({PriorityFrom(IF spec.ok /\ Outranks(spec, priority) THEN spec ELSE priority,
                           t, accepted, index, k + 1)
              : spec \in {specify(t, accepted[k], index, k - 1)}})

getMediaTypePriority(t, accepted, index) ==
  PriorityFrom([NoPriority EXCEPT !.i = index], t, accepted, index, 1)

\* compareSpecs breaking ties of quality by the offered order alone
compareSpecsByOffer(a, b) ==
  IF b.q - a.q # 0 THEN b.q - a.q ELSE a.i - b.i

\* compareSpecs: (b.q - a.q) || (b.s - a.s) || (a.o - b.o) || (a.i - b.i)
compareSpecs(a, b) ==
  IF b.q - a.q # 0 THEN b.q - a.q
  ELSE IF b.s - a.s # 0 THEN b.s - a.s
  ELSE IF a.o - b.o # 0 THEN a.o - b.o
  ELSE a.i - b.i

InsertSpec(sorted, x) ==
  InsertAt(sorted, x, {j \in 1..Len(sorted) : compareSpecs(x, sorted[j]) < 0})

RECURSIVE SortSpecsFrom(_, _)
SortSpecsFrom(sorted, rest) ==
  IF rest = <<>> THEN sorted
  ELSE Value({SortSpecsFrom(longer, Tail(rest)) : longer \in {InsertSpec(sorted, Head(rest))}})

SortSpecs(list) == Value({SortSpecsFrom(<<>>, specs) : specs \in {list}})

\* preferredMediaTypes(accept, provided): the acceptable offers, best first
preferredMediaTypes(accepted, provided) ==
  Value({[k \in 1..Len(sorted) |-> provided[sorted[k].i + 1]]
         : sorted \in {SortSpecs(SelectSeq(
                         [i \in 1..Len(provided) |->
                            getMediaTypePriority(provided[i], accepted, i - 1)],
                         LAMBDA p : p.q > 0))}})

\* no negotiation: the first offer whatever the request accepts
acceptsTypeFirstOffer(accept, types) == types[1]

\* accepts(req).type(types): the first offer when there is no Accept header,
\* else the preferred acceptable offer, else "false"
acceptsType(accept, types) ==
  IF ~accept.present THEN types[1]
  ELSE Value({IF preferred = <<>> THEN "false" ELSE preferred[1]
              : preferred \in {preferredMediaTypes(accept.ranges, types)}})

(***************************************************************************)
(* Request path: decodeURIComponent over URL tokens.  A token is a plain   *)
(* character, an escape ("%2e", "%00") or a malformed escape ("%").        *)
(***************************************************************************)
DecodeToken(t) == CASE t = "%2e" -> "." [] t = "%00" -> NUL [] OTHER -> t

Malformed(url) == \E i \in 1..Len(url) : url[i] = "%"

decodeURIComponent(url) == [i \in 1..Len(url) |-> DecodeToken(url[i])]

\* getRequestedDir (lines 351-357): [ok, dir]; ok = FALSE stands for null
getRequestedDir(r) ==
  IF Malformed(r.url) THEN [ok |-> FALSE, dir |-> <<>>]
  ELSE [ok |-> TRUE, dir |-> decodeURIComponent(r.url)]

(***************************************************************************)
(* Response bodies.                                                        *)
(***************************************************************************)
Names(list) == [i \in 1..Len(list) |-> list[i].name]

\* JSON.stringify of an array of names (no character here needs escaping)
JSONstringify(names) ==
  <<"[">> \o JoinWith([i \in 1..Len(names) |-> <<"\"">> \o names[i] \o <<"\"">>],
                      <<",">>)
  \o <<"]">>

\* names.join('\n') + '\n' (lines 238-240)
PlainBody(names) == JoinWith(names, <<"\n">>) \o <<"\n">>

\* the rendered template: of the markup only the entries, in order, are kept
HtmlBody(list) ==
  <<"<ul>">>
  \o Concat([i \in 1..Len(list) |-> <<"<li>">> \o list[i].name \o <<"</li>">>])
  \o <<"</ul>">>

NoHeaders == [Allow |-> {}, ContentLength |-> {}, ContentType |-> {}, XContentTypeOptions |-> {}]

InitRes == [statusCode |-> 200, headers |-> NoHeaders, body |-> <<>>, ended |-> 0]

\* the bytes of a character in UTF-8
Utf8Bytes(c) == IF c = EAcute THEN 2 ELSE 1

\* body.length: UTF-16 code units instead of bytes
RECURSIVE stringLength(_)
stringLength(body) == IF body = <<>> THEN 0 ELSE 1 + stringLength(Tail(body))

\* Buffer.byteLength(body, 'utf8') (line 530)
RECURSIVE byteLength(_)
byteLength(body) ==
  IF body = <<>> THEN 0 ELSE Utf8Bytes(Head(body)) + byteLength(Tail(body))

\* send (lines 524-534)
send(r, t, body) ==
  Value({[r EXCEPT !.headers = [@ EXCEPT !.XContentTypeOptions = {"nosniff"},
                                         !.ContentType = {<<t, "; charset=utf-8">>},
                                         !.ContentLength = {byteLength(str)}],
                   !.body = str,
                   !.ended = @ + 1]
         : str \in {body}})

(***************************************************************************)
(* Errors and calls of next().                                             *)
(***************************************************************************)
\* createError(status)
createError(status) == [err |-> TRUE, code |-> "HttpError", status |-> {status}]

\* a filesystem error as node raises it: a code and no status
FsError(code) == [err |-> TRUE, code |-> code, status |-> {}]

\* next() with no argument
NoError == [err |-> FALSE, code |-> "none", status |-> {}]

IsErrCode(k) == k \notin {"ok", "dir", "file"}

(***************************************************************************)
(* Filesystem operations issued, as logged in fsOps.                       *)
(***************************************************************************)
defaultStylesheet == <<"$", "s", "t", "y", "l", "e">>
defaultTemplate == <<"$", "t", "e", "m", "p", "l", "a", "t", "e">>

ProbeOp(p, c) == [op |-> "stat", role |-> "probe", target |-> p, confined |-> c]
ListOp(p, c) == [op |-> "readdir", role |-> "list", target |-> p, confined |-> c]
EntryOp(p, c) == [op |-> "stat", role |-> "entry", target |-> p, confined |-> c]
AssetOp(p, c) == [op |-> "readFile", role |-> "asset", target |-> p, confined |-> c]

(***************************************************************************)
(* stat() (lines 543-563) and the Batch it builds.                         *)
(***************************************************************************)
\* a limit one too high
ConcurrencyOff == 10 + 1

\* batch.concurrency(10) (line 546)
Concurrency == 10

UnsetSlot == [set |-> FALSE, name |-> <<>>, stat |-> "null"]

NoBatch ==
  [fns |-> 0, index |-> 0, pending |-> 0, results |-> <<>>, done |-> FALSE,
   inflight |-> {}, ended |-> "no"]

\* the loop of batch.end: next() for the first `max` functions
Started(n) == Min(n, Concurrency)

\* results.push(res): results kept in completion order
StoreResultPush(results, i, entry) ==
  [results EXCEPT ![FirstOf({j \in 1..Len(results) : ~results[j].set})] = entry]

\* results[i] = res, in the batch's callback
StoreResult(results, i, entry) == [results EXCEPT ![i] = entry]

\* the data handed to cb: { name, stat } per slot
Entries(results) ==
  [i \in 1..Len(results) |-> [name |-> results[i].name, stat |-> results[i].stat]]

\* no lookup for the synthetic ".."
LookupsOfRealEntries(dir, list, from, to, c) ==
  SelectSeq([k \in 1..(to - from + 1) |-> EntryOp(join(dir, list[from + k - 1]), c)],
            LAMBDA o : o.target # join(dir, DotDot))

\* the lookups of entries from..to of `list` in `dir` (line 550)
Lookups(dir, list, from, to, c) ==
  [k \in 1..(to - from + 1) |-> EntryOp(join(dir, list[from + k - 1]), c)]

\* batch.end(cb) on a non-empty list
BatchEnd(list) ==
  [fns |-> Len(list), index |-> Started(Len(list)), pending |-> Len(list),
   results |-> [i \in 1..Len(list) |-> UnsetSlot], done |-> FALSE,
   inflight |-> 1..Started(Len(list)), ended |-> "no"]

(***************************************************************************)
(* The callback the renderers give to stat (lines 175-201, 210-222,        *)
(* 231-243): t the negotiated type, ops the operations issued so far in    *)
(* this step, e the error and data the gathered entries.                   *)
(***************************************************************************)
RendererCb(t, ops, e, data) ==
  IF e.err
    THEN /\ nextCalls' = Append(nextCalls, e)
         /\ pc' = "done"
         /\ fsOps' = ops
         /\ UNCHANGED <<fileList, res>>
  ELSE /\ fileList' = SortFileList(data)
       /\ nextCalls' = nextCalls
       /\ IF t = "text/html"
            THEN /\ fsOps' = Append(ops, AssetOp(defaultStylesheet, confined))
                 /\ pc' = "readStyle"
                 /\ res' = res
          ELSE /\ fsOps' = ops
               /\ pc' = "done"
               /\ res' = send(res, t,
                              IF t = "application/json"
                                THEN JSONstringify(Names(fileList'))
                              ELSE PlainBody(Names(fileList')))

(***************************************************************************)
(* The handler (lines 88-158), up to the probe.                            *)
(***************************************************************************)
\* the confinement test of line 114: root compared without its separator
ConfinedNoSep(p) == Substr0(p, Len(rootPath) - 1) = SubSeq(rootPath, 1, Len(rootPath) - 1)

\* the confinement test of line 114
Confined(p) == Substr0(p \o <<sep>>, Len(rootPath)) = rootPath

\* every other method answered as OPTIONS is
MethodStatusAlways200(m) == 200

\* the status of a request that is neither GET nor HEAD (line 90)
MethodStatus(m) == IF m = "OPTIONS" THEN 200 ELSE 405

Handle ==
  /\ pc = "start"
  /\ UNCHANGED <<rootPath, hidden, filter, template, req, fs>>
  /\ UNCHANGED <<files, type, batch, fileList, filterCalls>>
  /\ IF req.method # "GET" /\ req.method # "HEAD"
       THEN /\ res' = [res EXCEPT
                         !.statusCode = MethodStatus(req.method),
                         !.headers = [@ EXCEPT !.Allow = {"GET, HEAD, OPTIONS"},
                                               !.ContentLength = {0}],
                         !.ended = @ + 1]
            /\ pc' = "done"
            /\ UNCHANGED <<path, showUp, nextCalls, fsOps, confined>>
     ELSE \E d \in {getRequestedDir(req)} :
          \E p \in {normalize(join(rootPath, d.dir))} :
             IF ~d.ok
               THEN /\ nextCalls' = Append(nextCalls, createError(400))
                    /\ pc' = "done"
                    /\ UNCHANGED <<path, showUp, res, fsOps, confined>>
             ELSE IF Contains(p, NUL)
               THEN /\ nextCalls' = Append(nextCalls, createError(400))
                    /\ pc' = "done"
                    /\ path' = p
                    /\ UNCHANGED <<showUp, res, fsOps, confined>>
             ELSE IF ~Confined(p)
               THEN /\ nextCalls' = Append(nextCalls, createError(403))
                    /\ pc' = "done"
                    /\ path' = p
                    /\ UNCHANGED <<showUp, res, fsOps, confined>>
             ELSE /\ path' = p
                  /\ showUp' = (normalize(resolve(p) \o <<sep>>) # rootPath)
                  /\ confined' = TRUE
                  /\ fsOps' = Append(fsOps, ProbeOp(p, TRUE))
                  /\ pc' = "probing"
                  /\ UNCHANGED <<res, nextCalls>>

(***************************************************************************)
(* The callback of fs.stat(path) (lines 124-141).                          *)
(***************************************************************************)
\* every probe failure classified alike
ProbeStatusAlways500(code) == 500

\* error.status of a failed probe (lines 131-133)
ProbeStatus(code) == IF code = "ENAMETOOLONG" THEN 414 ELSE 500

\* anything that exists taken for a directory
isDirectoryAlways(k) == TRUE

\* stat.isDirectory() (line 137)
isDirectory(k) == k = "dir"

ProbeCallback ==
  /\ pc = "probing"
  /\ UNCHANGED <<rootPath, hidden, filter, template, req, fs>>
  /\ UNCHANGED <<path, showUp, files, type, batch, fileList, res, filterCalls, confined>>
  /\ IF fs.probe = "ENOENT"
       THEN /\ nextCalls' = Append(nextCalls, NoError)
            /\ pc' = "done"
            /\ fsOps' = fsOps
     ELSE IF IsErrCode(fs.probe)
       THEN /\ nextCalls' = Append(nextCalls,
                               [FsError(fs.probe) EXCEPT !.status = {ProbeStatus(fs.probe)}])
            /\ pc' = "done"
            /\ fsOps' = fsOps
     ELSE IF ~isDirectory(fs.probe)
       THEN /\ nextCalls' = Append(nextCalls, NoError)
            /\ pc' = "done"
            /\ fsOps' = fsOps
     ELSE /\ fsOps' = Append(fsOps, ListOp(path, confined))
          /\ pc' = "reading"
          /\ nextCalls' = nextCalls

(***************************************************************************)
(* The callback of fs.readdir(path) (lines 141-156): filtering, the first  *)
(* sort, negotiation, and the renderer up to the lookups batch.end issues. *)
(***************************************************************************)
\* opts.filter applied by files.filter (lines 144-146)
Keeps(name) == name \in filter.keep

\* the entries the predicate rejects kept instead
ApplyFilterInverted(list) == SelectSeq(list, LAMBDA n : ~Keeps(n))

ApplyFilter(list) == SelectSeq(list, Keeps)

\* the index (from 1) of the first entry the predicate throws on, or 0
FirstThrow(list) ==
  LET T == {i \in 1..Len(list) : list[i] \in filter.throwsOn}
  IN IF T = {} THEN 0 ELSE FirstOf(T)

\* the calls files.filter makes on `list`, up to the n-th entry
FilterCallsOn(list, n, dir) ==
  [i \in 1..n |-> [filename |-> list[i], index |-> i - 1, list |-> list, path |-> dir]]

\* ".." put first whether or not the directory is the root
RendererFilesAlwaysUp(t, list) ==
  IF mediaType(t) = "html" THEN <<DotDot>> \o list ELSE list

\* ".." put first by every renderer
RendererFilesAnyType(t, list) == IF showUp THEN <<DotDot>> \o list ELSE list

\* the `files` a renderer hands to stat: html puts ".." first (lines 170-172)
RendererFiles(t, list) ==
  IF mediaType(t) = "html" /\ showUp THEN <<DotDot>> \o list ELSE list

ReaddirCallback ==
  /\ pc = "reading"
  /\ UNCHANGED <<rootPath, hidden, filter, template, req, fs>>
  /\ UNCHANGED <<path, showUp, confined>>
  /\ IF fs.readdir.err # "ok"
       THEN /\ nextCalls' = Append(nextCalls, FsError(fs.readdir.err))
            /\ pc' = "done"
            /\ UNCHANGED <<files, type, batch, fileList, res, fsOps, filterCalls>>
     ELSE \E visible \in {IF ~hidden THEN removeHidden(fs.readdir.names)
                            ELSE fs.readdir.names} :
          \E thrown \in {IF filter.kind = "fn" THEN FirstThrow(visible) ELSE 0} :
          \E kept \in {IF filter.kind = "fn" THEN ApplyFilter(visible) ELSE visible} :
          \E sorted \in {SortNames(kept)} :
          \E t \in {acceptsType(req.accept, mediaTypes)} :
             IF thrown # 0
               THEN \* the predicate's exception leaves the callback uncaught
                    /\ filterCalls' = FilterCallsOn(visible, thrown, path)
                    /\ pc' = "uncaught"
                    /\ UNCHANGED <<files, type, batch, fileList, res, nextCalls, fsOps>>
             ELSE /\ filterCalls' = IF filter.kind = "fn"
                                      THEN FilterCallsOn(visible, Len(visible), path)
                                    ELSE filterCalls
                  /\ IF t = "false"
                       THEN /\ files' = sorted
                            /\ nextCalls' = Append(nextCalls, createError(406))
                            /\ pc' = "done"
                            /\ UNCHANGED <<type, batch, fileList, res, fsOps>>
                     ELSE \E list \in {RendererFiles(t, sorted)} :
                             /\ files' = list
                             /\ type' = t
                             /\ IF list = <<>>
                                  THEN /\ batch' = [NoBatch EXCEPT !.ended = "ok"]
                                       /\ RendererCb(t, fsOps, NoError, <<>>)
                                ELSE /\ batch' = BatchEnd(list)
                                     /\ fsOps' = fsOps \o Lookups(path, list, 1,
                                                            Started(Len(list)), confined)
                                     /\ pc' = "statting"
                                     /\ UNCHANGED <<fileList, res, nextCalls>>

(***************************************************************************)
(* The callback of one fs.stat(join(dir, file)) (lines 550-558) and the    *)
(* batch's callback behind done(): the i-th lookup completes.              *)
(***************************************************************************)
\* a missing entry failing the gather like any other error
StatFailsOnAnyError(k) == IsErrCode(k)

\* no error failing the gather
StatFailsNever(k) == FALSE

\* `err && err.code !== 'ENOENT'` (line 551): the lookup fails the gather
StatFails(k) == IsErrCode(k) /\ k # "ENOENT"

\* the flag never looked at
AlreadyDoneNever(b) == FALSE

\* `if (done) return` in the batch's callback: cb was already called with
\* an error
AlreadyDone(b) == b.done

StatCallback(i) ==
  /\ i \in batch.inflight
  /\ UNCHANGED <<rootPath, hidden, filter, template, req, fs>>
  /\ UNCHANGED <<path, showUp, files, type, filterCalls, confined>>
  /\ LET k == fs.kind[files[i]]
         left == batch.inflight \ {i}
     IN IF AlreadyDone(batch)
          THEN \* if (done) return
               /\ batch' = [batch EXCEPT !.inflight = left]
               /\ UNCHANGED <<fileList, res, nextCalls, fsOps, pc>>
        ELSE IF StatFails(k)
          THEN \* done(err): done = true, cb(err)
               /\ batch' = [batch EXCEPT !.inflight = left, !.done = TRUE,
                                         !.ended = "err"]
               /\ RendererCb(type, fsOps, FsError(k), <<>>)
        ELSE LET results == StoreResult(batch.results, i,
                              [set |-> TRUE, name |-> files[i],
                               stat |-> IF k = "ENOENT" THEN "null" ELSE k])
             IN IF batch.pending - 1 # 0
                  THEN \* next(): start the function at `index`, if there is one
                       /\ batch' = [batch EXCEPT
                                      !.results = results,
                                      !.pending = @ - 1,
                                      !.index = @ + 1,
                                      !.inflight = IF batch.index < batch.fns
                                                     THEN left \cup {batch.index + 1}
                                                   ELSE left]
                       /\ fsOps' = IF batch.index < batch.fns
                                     THEN fsOps \o Lookups(path, files, batch.index + 1,
                                                           batch.index + 1, confined)
                                   ELSE fsOps
                       /\ UNCHANGED <<fileList, res, nextCalls, pc>>
                ELSE /\ batch' = [batch EXCEPT !.results = results, !.pending = 0,
                                               !.inflight = left, !.ended = "ok"]
                     /\ RendererCb(type, fsOps, NoError, Entries(results))

(***************************************************************************)
(* html only: the callbacks of fs.readFile(stylesheet) (lines 182-200) and *)
(* of fs.readFile(template) (lines 314-324).                               *)
(***************************************************************************)
StylesheetCallback ==
  /\ pc = "readStyle"
  /\ UNCHANGED <<rootPath, hidden, filter, template, req, fs>>
  /\ UNCHANGED <<path, showUp, files, type, batch, fileList, filterCalls, confined>>
  /\ IF fs.style # "ok"
       THEN /\ nextCalls' = Append(nextCalls, FsError(fs.style))
            /\ pc' = "done"
            /\ UNCHANGED <<res, fsOps>>
     ELSE IF template = "function"
       THEN \* the caller's render function answers at once
            IF fs.tpl # "ok"
              THEN /\ nextCalls' = Append(nextCalls, FsError(fs.tpl))
                   /\ pc' = "done"
                   /\ UNCHANGED <<res, fsOps>>
            ELSE /\ res' = send(res, "text/html", HtmlBody(fileList))
                 /\ pc' = "done"
                 /\ UNCHANGED <<nextCalls, fsOps>>
     ELSE /\ fsOps' = Append(fsOps, AssetOp(defaultTemplate, confined))
          /\ pc' = "readTemplate"
          /\ UNCHANGED <<res, nextCalls>>

TemplateCallback ==
  /\ pc = "readTemplate"
  /\ UNCHANGED <<rootPath, hidden, filter, template, req, fs>>
  /\ UNCHANGED <<path, showUp, files, type, batch, fileList, filterCalls, confined, fsOps>>
  /\ IF fs.tpl # "ok"
       THEN /\ nextCalls' = Append(nextCalls, FsError(fs.tpl))
            /\ pc' = "done"
            /\ res' = res
     ELSE /\ res' = send(res, "text/html", HtmlBody(fileList))
          /\ pc' = "done"
          /\ nextCalls' = nextCalls

Next ==
  \/ Handle
  \/ ProbeCallback
  \/ ReaddirCallback
  \/ \E i \in batch.inflight : StatCallback(i)
  \/ StylesheetCallback
  \/ TemplateCallback

(***************************************************************************)
(* Initial states: the options, the request and the filesystem are inputs. *)
(***************************************************************************)
Range(f) == {f[i] : i \in DOMAIN f}

SeqsUpTo(S, lo, n) == UNION {[1..k -> S] : k \in lo..n}

Setup(Roots, Reqs, Hiddens, Filters, Templates, Filesystems) ==
  /\ rootPath \in {normalize(resolve(r) \o <<sep>>) : r \in Roots}
  /\ req \in Reqs
  /\ hidden \in Hiddens
  /\ filter \in Filters
  /\ template \in Templates
  /\ fs \in Filesystems
  /\ pc = "start"
  /\ path = <<>>
  /\ showUp = FALSE
  /\ files = <<>>
  /\ type = "unset"
  /\ batch = NoBatch
  /\ fileList = <<>>
  /\ res = InitRes
  /\ nextCalls = <<>>
  /\ fsOps = <<>>
  /\ filterCalls = <<>>
  /\ confined = FALSE

\* roots as resolve(root) meets them
RootR == <<sep, "r">>
Roots == {<<sep>>, RootR, <<sep, "r", sep>>}

\* request paths
UrlTokens == {sep, ".", "r", "%2e", "%00", "%"}
Urls(n) == SeqsUpTo(UrlTokens, 0, n)
UrlRoot == <<sep>>
UrlSub == <<sep, "r">>

Methods == {"GET", "HEAD", "OPTIONS", "POST"}

\* Accept headers
NoAccept == [present |-> FALSE, ranges |-> <<>>]
Range1(t, st) == [type |-> t, subtype |-> st, q |-> 10]
Only(t, st) == [present |-> TRUE, ranges |-> <<Range1(t, st)>>]
MediaRanges ==
  {[type |-> r[1], subtype |-> r[2], q |-> q] :
     r \in {<<"text", "html">>, <<"text", "plain">>, <<"application", "json">>,
            <<"application", "xml">>, <<"text", "*">>, <<"*", "*">>},
     q \in {0, 5, 10}}
AcceptHeaders(n) ==
  {NoAccept} \cup {[present |-> TRUE, ranges |-> r] : r \in SeqsUpTo(MediaRanges, 1, n)}
Formats == {NoAccept, Only("application", "json"), Only("text", "plain")}

\* opts.filter
NoFilter == [kind |-> "none", keep |-> {}, throwsOn |-> {}]

\* directory entries
NameHidden == <<".", "h", "i", "d", "d", "e", "n">>
NameA == <<"A">>
NameLowerA == <<"a">>
NameB == <<"B">>
NameBtxt == <<"b", ".", "t", "x", "t">>
NameAccent == <<EAcute>>
EntryNames == {NameHidden, NameA, NameLowerA, NameB}
ExampleListing == <<NameBtxt, NameHidden, NameA>>

\* readdir results: distinct names, in any order
ListingsOver(names, n) ==
  {l \in SeqsUpTo(names, 0, n) : \A i, j \in 1..Len(l) : i # j => l[i] # l[j]}
Listings(n) == ListingsOver(EntryNames, n)

\* what a lookup of each name (and of "..") meets
KindsOver(names, entryKinds, upKinds) ==
  {k \in [names \cup {DotDot} -> entryKinds \cup upKinds] :
     k[DotDot] \in upKinds /\ \A n \in names : k[n] \in entryKinds}

ExampleKind ==
  [n \in Range(ExampleListing) \cup {DotDot} |-> IF n \in {NameA, DotDot} THEN "dir" ELSE "file"]

Disk(probe, err, names, kind, style, tpl) ==
  [probe |-> probe, readdir |-> [err |-> err, names |-> names], kind |-> kind,
   style |-> style, tpl |-> tpl]

ProbeOutcomes == {"dir", "file", "ENOENT", "ENAMETOOLONG", "EACCES", "ENOTDIR"}

Req(m, u, a) == [method |-> m, url |-> u, accept |-> a]

\* the disks holding a directory: each listing with each assignment of kinds
Directories(listings, entryKinds, upKinds) ==
  UNION {{Disk("dir", "ok", l, k, "ok", "ok") :
            k \in KindsOver(Range(l), entryKinds, upKinds)} : l \in listings}

ExampleDisk == Disk("dir", "ok", ExampleListing, ExampleKind, "ok", "ok")

\* every listing with every kind of entry, in each format, at the root and
\* (html, where it matters) below it
InitListings ==
  Setup({RootR},
        {Req("GET", UrlRoot, a) : a \in Formats} \cup {Req("GET", UrlSub, NoAccept)},
        BOOLEAN, {NoFilter}, {"file"},
        Directories(Listings(MaxEntries), {"dir", "file", "ENOENT"}, {"dir"}))

\* the example directory with failing lookups
InitFaults ==
  Setup({RootR},
        {Req("GET", u, a) : u \in {UrlRoot, UrlSub}, a \in Formats},
        BOOLEAN, {NoFilter}, {"file"},
        Directories({ExampleListing}, {"dir", "file", "ENOENT", "EACCES"},
                    {"dir", "EACCES"}))

\* the example directory under every method, option and outcome of the
\* probe, the directory read and the asset reads
InitOptions ==
  Setup({RootR},
        {Req(m, u, a) : m \in Methods, u \in {UrlRoot, UrlSub},
                        a \in {NoAccept, Only("application", "json"),
                               Only("application", "xml")}},
        BOOLEAN,
        {NoFilter,
         [kind |-> "fn", keep |-> {NameA, NameHidden}, throwsOn |-> {}],
         [kind |-> "fn", keep |-> {NameBtxt}, throwsOn |-> {NameA}]},
        {"file", "function"},
        {Disk(p, e, ExampleListing, ExampleKind, st, tp) :
           p \in ProbeOutcomes, e \in {"ok", "EACCES"},
           st \in {"ok", "ENOENT"}, tp \in {"ok", "ENOENT"}})

Init == InitListings \/ InitFaults \/ InitOptions

Spec == Init /\ [][Next]_vars

\* every request path under every root
InitPath ==
  \/ Setup(Roots, {Req("GET", u, NoAccept) : u \in Urls(MaxPathLen)},
           {FALSE}, {NoFilter}, {"file"}, {ExampleDisk})
  \/ Setup(Roots, {Req(m, u, NoAccept) : m \in Methods \ {"GET"},
                                         u \in Urls(MaxPathLen - 2)},
           {FALSE}, {NoFilter}, {"file"}, {ExampleDisk})

SpecPath == InitPath /\ [][Next]_vars

\* every Accept header
InitNeg ==
  Setup({RootR}, {Req("GET", UrlRoot, a) : a \in AcceptHeaders(MaxAccept)},
        {FALSE}, {NoFilter}, {"file"}, {ExampleDisk})

SpecNeg == InitNeg /\ [][Next]_vars

\* directories larger than the concurrency limit
Letters == <<"a", "b", "d", "e", "h">>
StatName(i) == <<Letters[((i - 1) \div 5) + 1], Letters[((i - 1) % 5) + 1]>>
StatListing(n) == [i \in 1..n |-> StatName(n + 1 - i)]
\* entry i is a directory when i is even, and entry j (if any) fails with `fault`
StatKind(n, j, fault) ==
  [name \in Range(StatListing(n)) \cup {DotDot} |->
     IF j # 0 /\ name = StatName(j) THEN fault
     ELSE IF name = DotDot THEN "dir"
     ELSE IF \E i \in 1..n : name = StatName(i) /\ i % 2 = 0 THEN "dir"
     ELSE "file"]

StatDisk(n, j, fault) ==
  Disk("dir", "ok", StatListing(n), StatKind(n, j, fault), "ok", "ok")

InitStat ==
  \/ Setup({RootR}, {Req("GET", UrlRoot, Only("application", "json"))},
           {FALSE}, {NoFilter}, {"file"},
           {StatDisk(Concurrency + ExtraStat, j, "ENOENT") :
              j \in {0, 1, Concurrency, Concurrency + ExtraStat}}
           \cup {StatDisk(Concurrency + ExtraStat, j, "EACCES") :
                   j \in {1, Concurrency + ExtraStat}})
  \/ Setup({RootR}, {Req("GET", UrlSub, NoAccept)},
           {FALSE}, {NoFilter}, {"file"},
           {StatDisk(Concurrency + ExtraStat, 0, "ENOENT")})

SpecStat == InitStat /\ [][Next]_vars

\* listings whose names reach the response body, in every format, at the
\* root and below it
InitBody ==
  Setup({RootR}, {Req("GET", u, a) : u \in {UrlRoot, UrlSub}, a \in Formats},
        {FALSE}, {NoFilter}, {"file"},
        Directories(ListingsOver({NameA, NameBtxt, NameAccent}, MaxEntries),
                    {"dir", "file"}, {"dir"}))

SpecBody == InitBody /\ [][Next]_vars

\* the example directory, hidden entries shown, with lookups that fail in
\* two different ways
InitFail ==
  Setup({RootR},
        {Req("GET", UrlSub, NoAccept), Req("GET", UrlRoot, Only("text", "plain"))},
        {TRUE}, {NoFilter}, {"file"},
        Directories({ExampleListing}, {"file", "ENOENT", "EACCES", "EIO"},
                    {"dir", "EACCES"}))

SpecFail == InitFail /\ [][Next]_vars

\* requests whose callbacks all return: every callback of an issued
\* operation is run by the event loop
InitLive ==
  \/ Setup({RootR},
           {Req(m, UrlRoot, NoAccept) : m \in Methods}
           \cup {Req("GET", u, NoAccept) :
                   u \in {<<"%">>, <<sep, "%00">>, <<sep, ".", ".">>}},
           {FALSE}, {NoFilter}, {"file"}, {ExampleDisk})
  \/ Setup({RootR},
           {Req("GET", UrlRoot, a) : a \in {NoAccept, Only("application", "xml")}},
           {FALSE},
           {NoFilter, [kind |-> "fn", keep |-> {NameA}, throwsOn |-> {}]},
           {"file", "function"},
           {Disk(p, e, ExampleListing, ExampleKind, st, tp) :
              p \in ProbeOutcomes, e \in {"ok", "EACCES"},
              st \in {"ok", "ENOENT"}, tp \in {"ok", "ENOENT"}})
  \/ InitFail

SpecLive == InitLive /\ [][Next]_vars /\ WF_vars(Next)

(***************************************************************************)
(* Properties.                                                             *)
(***************************************************************************)
IsGetOrHead == req.method \in {"GET", "HEAD"}

\* a listing was rendered and sent
Responded == pc = "done" /\ type # "unset" /\ res.ended = 1 /\ nextCalls = <<>>

\* the segments of an absolute path once "", "." and ".." are resolved
SegsOf(p) == NormSegs(Split(p), <<>>, FALSE)

\* p is root or a descendant of it, segment by segment
Within(root, p) == IsPrefix(SegsOf(root), SegsOf(p))

\* the lexically normalized join of the root and the decoded request path
JoinedPath == normalize(join(rootPath, decodeURIComponent(req.url)))

OpsOf(roles) == {i \in 1..Len(fsOps) : fsOps[i].role \in roles}

\* C1: for a GET/HEAD request whose decoded path holds no NUL, a path that
\* resolves outside the root gets a 403 error passed to next and nothing
\* else (no filesystem operation, no response); a path that resolves to the
\* root or inside it passes: it is probed, and the resolved path plus a
\* separator has the root (with its separator) as a string prefix.
C1_Confinement ==
  (pc # "start" /\ IsGetOrHead /\ ~Malformed(req.url)
     /\ ~Contains(decodeURIComponent(req.url), NUL))
  => IF ~Within(rootPath, JoinedPath)
       THEN /\ pc = "done"
            /\ nextCalls = <<createError(403)>>
            /\ fsOps = <<>>
            /\ res = InitRes
            /\ ~confined
     ELSE /\ confined
          /\ path = JoinedPath
          /\ IsPrefix(rootPath, path \o <<sep>>)
          /\ fsOps # <<>>
          /\ fsOps[1] = ProbeOp(path, TRUE)
          /\ \A i \in 1..Len(nextCalls) : nextCalls[i].status # {403}

\* C1 witness: "../rr" under the root /r/ resolves to the sibling /rr, whose
\* name begins like the root's, and is refused
C1_Witness ==
  /\ pc = "done"
  /\ req.method = "GET"
  /\ rootPath = <<sep, "r", sep>>
  /\ req.url = <<".", ".", sep, "r", "r">>
  /\ path = <<sep, "r", "r">>
  /\ nextCalls = <<createError(403)>>

\* C2: every probe, directory read and per-entry lookup issued (the one for
\* ".." included) was issued after the confinement check passed and targets
\* the root or a descendant of it; a request refused with 400, 403 or 405 or
\* answered to OPTIONS issued no filesystem operation.
C2_OpsWithinRoot ==
  /\ \A i \in OpsOf({"probe", "list", "entry"}) :
       fsOps[i].confined /\ Within(rootPath, fsOps[i].target)
  /\ (fsOps # <<>>) => confined
  /\ (pc = "done" /\ (~IsGetOrHead
                      \/ \E i \in 1..Len(nextCalls) :
                           nextCalls[i].status \in {{400}, {403}}))
     => fsOps = <<>>

\* C2 witness: the html listing of a subdirectory has looked ".." up, and the
\* lookup went to the root itself
C2_Witness ==
  /\ Responded
  /\ showUp
  /\ rootPath = <<sep, "r", sep>>
  /\ \E i \in OpsOf({"entry"}) :
       fsOps[i].target = <<sep, "r">> /\ files[1] = DotDot

\* C3: when the probe of a confined path finds nothing, or something that is
\* not a directory, next is called once with no error, no response is
\* written and neither a directory read nor a per-entry lookup is issued,
\* whatever the Accept header.
C3_Fallthrough ==
  (confined /\ fs.probe \in {"ENOENT", "file"})
  => /\ OpsOf({"list", "entry", "asset"}) = {}
     /\ res = InitRes
     /\ pc \in {"probing", "done"}
     /\ pc = "done" => nextCalls = <<NoError>>
     /\ pc = "probing" => nextCalls = <<>>

\* C3 witness: a file met by a request that accepts only application/xml
C3_Witness ==
  /\ pc = "done"
  /\ fs.probe = "file"
  /\ req.accept = Only("application", "xml")
  /\ nextCalls = <<NoError>>
  /\ Len(fsOps) = 1

\* C4: the per-entry lookups issued and not yet completed are never more
\* than 10, for lists longer than 10 and every order of completion.
C4_AtMostTenInFlight == Cardinality(batch.inflight) <= 10

\* C4 witness: 10 lookups in flight after one has completed and the 11th
\* has been issued
C4_Witness ==
  /\ Len(files) > 10
  /\ Cardinality(batch.inflight) = 10
  /\ batch.index = 11
  /\ 11 \in batch.inflight

\* C5: when stat-gathering succeeds its output has one entry per input
\* entry, the i-th carrying the name of the i-th input, for every order of
\* completion; and while it runs, every result already stored sits at the
\* position of its input entry.
C5_InputOrder ==
  /\ \A i \in 1..Len(batch.results) :
       batch.results[i].set => batch.results[i].name = files[i]
  /\ batch.ended = "ok"
     => /\ Len(batch.results) = Len(files)
        /\ \A i \in 1..Len(files) :
             batch.results[i].set /\ batch.results[i].name = files[i]

\* C5 witness: a gather of more than 10 entries has succeeded, one of them
\* having vanished
C5_Witness ==
  /\ batch.ended = "ok"
  /\ Len(files) > 10
  /\ \E i \in 1..Len(files) : batch.results[i].stat = "null"
  /\ \E i \in 1..Len(files) : batch.results[i].stat = "dir"

StartsWithDot(name) == name # <<>> /\ name[1] = "."

\* C6 as stated: with hidden files excluded, no name of the final listing
\* starts with ".", in any directory and format.
C6_NoDotNames ==
  (~hidden /\ Responded) => \A i \in 1..Len(fileList) : ~StartsWithDot(fileList[i].name)

\* C6 amended: with hidden files excluded, no directory entry whose name
\* starts with "." is in the final listing, in any directory and format; the
\* one listed name that starts with "." is the parent link "..", first in
\* the html listing of a subdirectory.
C6_NoHiddenEntries ==
  ~hidden
  => /\ \A i \in 1..Len(fileList) :
          StartsWithDot(fileList[i].name)
          => /\ fileList[i].name = DotDot
             /\ i = 1
             /\ type = "text/html"
             /\ showUp
     /\ \A i \in 1..Len(files) : StartsWithDot(files[i]) => files[i] = DotDot
     /\ type \in {"application/json", "text/plain"}
        => \A i \in 1..Len(fileList) : ~StartsWithDot(fileList[i].name)

\* C6 witness: the html listing of a subdirectory that holds a hidden entry
\* was sent with ".." first and without the hidden entry
C6_Witness ==
  /\ Responded
  /\ ~hidden
  /\ \E i \in 1..Len(fs.readdir.names) : fs.readdir.names[i] = NameHidden
  /\ Len(fileList) = 3
  /\ fileList[1].name = DotDot

IsDir(e) == e.stat = "dir"

\* a may stand before b in the final listing
MayPrecede(a, b) ==
  IF a.name = DotDot THEN TRUE
  ELSE IF b.name = DotDot THEN FALSE
  ELSE IF IsDir(a) # IsDir(b) THEN IsDir(a)
  ELSE IF toLocaleLowerCase(a.name) # toLocaleLowerCase(b.name)
    THEN localeCompare(toLocaleLowerCase(a.name), toLocaleLowerCase(b.name)) < 0
  ELSE defaultCompare(a.name, b.name) <= 0

\* C7: in the final listing ".." stands before every other entry, then
\* directories before non-directories (absent metadata counting as
\* non-directory), within a class names in case-insensitive order, and names
\* equal but for case in their plain lexical order; the listing holds exactly
\* the entries gathered; b.txt, .hidden, A (a directory) gives [A, b.txt].
C7_FinalOrder ==
  /\ \A i, j \in 1..Len(fileList) : i < j => MayPrecede(fileList[i], fileList[j])
  /\ batch.ended = "ok"
     => /\ Len(fileList) = Len(files)
        /\ \A i \in 1..Len(files) :
             \E j \in 1..Len(fileList) : fileList[j] = Entries(batch.results)[i]
  /\ (Responded /\ ~hidden /\ filter.kind = "none" /\ ~showUp
        /\ fs.readdir.names = ExampleListing /\ fs.kind = ExampleKind)
     => Names(fileList) = <<NameA, NameBtxt>>

\* C7 witness: read as a, A, B, the directory B is listed first, then A and a
\* (a vanished, so without metadata) in their plain lexical order
C7_Witness ==
  /\ Responded
  /\ fs.readdir.names = <<NameLowerA, NameA, NameB>>
  /\ fileList = <<[name |-> NameB, stat |-> "dir"],
                  [name |-> NameA, stat |-> "file"],
                  [name |-> NameLowerA, stat |-> "null"]>>

(***************************************************************************)
(* What the Accept header says of an offered type, read off the header     *)
(* range by range.                                                         *)
(***************************************************************************)
Offered == Range(mediaTypes)

OfferIndex(t) == CHOOSE i \in 1..Len(mediaTypes) : mediaTypes[i] = t

MatchesRange(t, r) ==
  /\ r.type \in {parseMediaType(t).type, "*"}
  /\ r.subtype \in {parseMediaType(t).subtype, "*"}

\* how many of type and subtype the range names outright
Exactness(t, r) ==
  (IF r.type = parseMediaType(t).type THEN 1 ELSE 0)
  + (IF r.subtype = parseMediaType(t).subtype THEN 1 ELSE 0)

MaxOf(S) == CHOOSE x \in S : \A y \in S : y <= x

Matching(t) ==
  {k \in 1..Len(req.accept.ranges) : MatchesRange(t, req.accept.ranges[k])}

MostSpecific(t) ==
  {k \in Matching(t) :
     \A j \in Matching(t) :
       Exactness(t, req.accept.ranges[j]) <= Exactness(t, req.accept.ranges[k])}

\* the quality the client gives t: that of its most specific matching range
Quality(t) ==
  IF Matching(t) = {} THEN 0
  ELSE MaxOf({req.accept.ranges[k].q : k \in MostSpecific(t)})

Specificity(t) ==
  MaxOf({Exactness(t, req.accept.ranges[k]) : k \in Matching(t)})

\* the place in the header of the (last) range that gives t its quality
Position(t) ==
  MaxOf({k \in MostSpecific(t) : req.accept.ranges[k].q = Quality(t)})

Acceptable(t) == Quality(t) > 0

\* t is chosen before u: by quality, then by how specifically the header
\* names it, then by the place of its range in the header, then by the
\* offered order
Preferred(t, u) ==
  IF Quality(t) # Quality(u) THEN Quality(t) > Quality(u)
  ELSE IF Specificity(t) # Specificity(u) THEN Specificity(t) > Specificity(u)
  ELSE IF Position(t) # Position(u) THEN Position(t) < Position(u)
  ELSE OfferIndex(t) < OfferIndex(u)

\* the request has passed content negotiation
Negotiated ==
  /\ pc \notin {"start", "probing", "reading", "uncaught"}
  /\ confined
  /\ isDirectory(fs.probe)
  /\ fs.readdir.err = "ok"

\* the body the renderer of the negotiated type produces
BodyOf(t) ==
  CASE t = "text/html" -> HtmlBody(fileList)
    [] t = "application/json" -> JSONstringify(Names(fileList))
    [] t = "text/plain" -> PlainBody(Names(fileList))

\* C8 as stated, its tie rule: of the offered types the client finds equally
\* acceptable (the same quality), the earliest offered is selected.
C8_TieByOfferedOrder ==
  (Negotiated /\ req.accept.present /\ type # "unset")
  => \A u \in Offered :
       Quality(u) = Quality(type) => OfferIndex(type) <= OfferIndex(u)

\* C8 amended: a request that reaches negotiation either has exactly one of
\* text/html, text/plain, application/json selected, and then only that
\* renderer runs, or, when the client accepts none of them, has a 406 error
\* passed to next and no response written.  With no Accept header text/html
\* is selected.  Of several acceptable types the one of highest quality is
\* selected; at equal quality the one the header names more specifically,
\* then the one whose range stands earlier in the header, and only then
\* (matched by the same range, say */*) the earliest offered.
C8_Negotiation ==
  Negotiated
  => /\ IF ~req.accept.present THEN type = "text/html"
        ELSE IF \A t \in Offered : ~Acceptable(t)
          THEN /\ type = "unset"
               /\ pc = "done"
               /\ nextCalls = <<createError(406)>>
               /\ res = InitRes
               /\ OpsOf({"entry", "asset"}) = {}
        ELSE /\ type \in Offered
             /\ Acceptable(type)
             /\ \A u \in Offered \ {type} : Acceptable(u) => Preferred(type, u)
     /\ type # "unset"
        => /\ \A i \in 1..Len(nextCalls) : nextCalls[i].status # {406}
           /\ OpsOf({"asset"}) # {} => type = "text/html"
           /\ res.ended <= 1
           /\ res.ended = 1
              => /\ res.headers.ContentType = {<<type, "; charset=utf-8">>}
                 /\ res.body = BodyOf(type)

\* C8 witness: Accept: application/json, text/html, both of full quality, was
\* answered with application/json, the later of the two in the offered order
C8_Witness ==
  /\ Responded
  /\ req.accept.ranges = <<Range1("application", "json"), Range1("text", "html")>>
  /\ type = "application/json"
  /\ res.headers.ContentType = {<<"application/json", "; charset=utf-8">>}

\* C9: a request that is neither GET nor HEAD is ended by the handler with an
\* empty body and Allow: GET, HEAD, OPTIONS, with status 200 for OPTIONS and
\* 405 for any other method; next is never called, the path never resolved
\* and the filesystem never touched.
C9_OtherMethods ==
  (~IsGetOrHead /\ pc # "start")
  => /\ pc = "done"
     /\ res = [statusCode |-> IF req.method = "OPTIONS" THEN 200 ELSE 405,
               headers |-> [NoHeaders EXCEPT !.Allow = {"GET, HEAD, OPTIONS"},
                                             !.ContentLength = {0}],
               body |-> <<>>,
               ended |-> 1]
     /\ nextCalls = <<>>
     /\ fsOps = <<>>
     /\ path = <<>>
     /\ ~confined

\* C9 witness: a POST whose path is malformed and points above the root was
\* answered 405
C9_Witness ==
  /\ pc = "done"
  /\ req.method = "POST"
  /\ req.url = <<".", ".", "%">>
  /\ res.statusCode = 405
  /\ res.ended = 1

\* C10: a probe that fails with anything but a missing file has its error
\* passed to next, with status 414 when the name is too long and 500
\* otherwise; the request does not fall through and writes no response.
C10_ProbeError ==
  (confined /\ IsErrCode(fs.probe) /\ fs.probe # "ENOENT" /\ pc # "probing")
  => /\ pc = "done"
     /\ nextCalls = <<[err |-> TRUE, code |-> fs.probe,
                       status |-> {IF fs.probe = "ENAMETOOLONG" THEN 414 ELSE 500}]>>
     /\ res = InitRes
     /\ OpsOf({"list", "entry", "asset"}) = {}

\* C10 witness: a path that runs through a file (ENOTDIR) ended as a 500
\* error
C10_Witness ==
  /\ pc = "done"
  /\ fs.probe = "ENOTDIR"
  /\ Len(nextCalls) = 1
  /\ nextCalls[1].status = {500}
  /\ nextCalls[1].err

\* the statuses an error handed to next may carry
ErrorStatuses == {400, 403, 406, 414, 500}

\* C11: every error the handler passes to next, at any stage of a request,
\* carries one HTTP status taken from 400, 403, 406, 414 and 500; a failed
\* directory read and a failed (not missing) per-entry lookup carry 500.
C11_ErrorsCarryStatus ==
  \A i \in 1..Len(nextCalls) :
    nextCalls[i].err
      => /\ \E s \in ErrorStatuses : nextCalls[i].status = {s}
         /\ (nextCalls[i].code \notin {"HttpError", "ENAMETOOLONG"}
               => nextCalls[i].status = {500})

\* the entries of the directory that pass the hidden filter
Visible ==
  IF hidden THEN fs.readdir.names
  ELSE SelectSeq(fs.readdir.names, LAMBDA n : ~StartsWithDot(n))

\* ... and the predicate, where one is supplied
Passed ==
  IF filter.kind = "none" THEN Visible
  ELSE SelectSeq(Visible, LAMBDA n : n \in filter.keep)

\* the resolved path is not the root
BelowRoot == SegsOf(path) # SegsOf(rootPath)

ListsParent == \E i \in 1..Len(fileList) : fileList[i].name = DotDot

\* C12 as stated: in each format, a rendered listing holds ".." exactly
\* when the resolved path differs from the root, at position 0, and is as
\* long as the entries that passed the filters plus one for "..".
C12_ParentLinkInEveryFormat ==
  Responded
    => /\ ListsParent <=> BelowRoot
       /\ BelowRoot => fileList[1].name = DotDot
       /\ Len(fileList) = Len(Passed) + (IF BelowRoot THEN 1 ELSE 0)

\* C12, amended: a rendered html listing holds ".." exactly when the
\* resolved path differs from the root, at position 0, and is as long as
\* the entries that passed the hidden filter and the predicate plus one for
\* ".."; a json or plain listing never holds ".." and is exactly as long as
\* the entries that passed.
C12_ParentLinkInHtml ==
  Responded
    => LET up == type = "text/html" /\ BelowRoot
       IN /\ ListsParent <=> up
          /\ up => fileList[1].name = DotDot
          /\ \A i \in 2..Len(fileList) : fileList[i].name # DotDot
          /\ Len(fileList) = Len(Passed) + (IF up THEN 1 ELSE 0)

\* C12 witness: a json listing of a subdirectory, some entries dropped by
\* the predicate, sent without ".."
C12_Witness ==
  /\ Responded
  /\ type = "application/json"
  /\ BelowRoot
  /\ filter.kind = "fn"
  /\ Len(fileList) >= 1
  /\ Len(fileList) < Len(Visible)
  /\ ~ListsParent

\* ... and an html listing of a subdirectory, sent with ".." first
C12_WitnessHtml ==
  /\ Responded
  /\ type = "text/html"
  /\ BelowRoot
  /\ Len(fileList) = Len(Passed) + 1
  /\ Len(Passed) >= 2
  /\ fileList[1].name = DotDot

\* each name between double quotes, a comma between two names
RECURSIVE JsonItems(_)
JsonItems(names) ==
  IF names = <<>> THEN <<>>
  ELSE <<"\"">> \o Head(names) \o <<"\"">>
       \o (IF Len(names) > 1 THEN <<",">> ELSE <<>>) \o JsonItems(Tail(names))

\* each name followed by a newline
RECURSIVE Lines(_)
Lines(names) ==
  IF names = <<>> THEN <<>> ELSE Head(names) \o <<"\n">> \o Lines(Tail(names))

\* the bytes of a body in UTF-8
ByteCount(body) ==
  Len(body) + Cardinality({i \in 1..Len(body) : body[i] = EAcute})

\* the headers of a rendered response
SentAs(t, body) ==
  /\ res.headers.ContentType = {<<t, "; charset=utf-8">>}
  /\ res.headers.XContentTypeOptions = {"nosniff"}
  /\ res.headers.ContentLength = {ByteCount(body)}
  /\ res.body = body
  /\ res.statusCode = 200

\* C13 as stated, the plain body: each entry name of the listing, in
\* listing order, followed by a newline.
C13_PlainLinePerEntry ==
  (Responded /\ type = "text/plain") => res.body = Lines(Names(fileList))

\* C13, amended: the JSON body is the array of exactly the entry names in
\* listing order, and the plain body is the entry names in listing order
\* joined by newlines, followed by one newline (an empty listing gives the
\* body "\n"); both are sent with Content-Type '<type>; charset=utf-8',
\* X-Content-Type-Options: nosniff and Content-Length equal to the body's
\* byte length.  Listing [A, b.txt] gives ["A","b.txt"] and "A\nb.txt\n".
C13_Bodies ==
  LET names == Names(fileList)
  IN /\ (Responded /\ type = "application/json")
          => /\ SentAs("application/json", <<"[">> \o JsonItems(names) \o <<"]">>)
             /\ names = <<NameA, NameBtxt>>
                  => res.body = <<"[", "\"", "A", "\"", ",",
                                  "\"", "b", ".", "t", "x", "t", "\"", "]">>
     /\ (Responded /\ type = "text/plain")
          => /\ SentAs("text/plain",
                       IF names = <<>> THEN <<"\n">> ELSE Lines(names))
             /\ names = <<NameA, NameBtxt>>
                  => res.body = <<"A", "\n", "b", ".", "t", "x", "t", "\n">>

\* C13 witness: a json listing with a name outside ASCII, whose
\* Content-Length counts bytes
C13_Witness ==
  /\ Responded
  /\ type = "application/json"
  /\ Names(fileList) = <<NameA, NameBtxt, NameAccent>>
  /\ res.headers.ContentLength = {18}
  /\ Len(res.body) = 17

\* ... and the plain listing [A, b.txt]
C13_WitnessPlain ==
  /\ Responded
  /\ type = "text/plain"
  /\ res.body = <<"A", "\n", "b", ".", "t", "x", "t", "\n">>
  /\ res.headers.ContentLength = {8}

\* the terminal outcomes so far: calls of next and endings of the response
Outcomes == Len(nextCalls) + res.ended

\* no filesystem operation is issued twice
NoRetry == \A i, j \in 1..Len(fsOps) : i # j => fsOps[i] # fsOps[j]

\* the lookups that fail with something other than ENOENT
FailingLookups ==
  {i \in 1..Len(files) : IsErrCode(fs.kind[files[i]]) /\ fs.kind[files[i]] # "ENOENT"}

\* C14: when every issued filesystem operation calls back and no callback
\* throws, every request reaches a terminal outcome and exactly one: the
\* response is ended once or next is called once, never both and never
\* twice, under every interleaving of the lookups' completions, and no
\* operation is issued twice.
C14_ExactlyOneOutcome ==
  /\ [](Outcomes <= 1 /\ NoRetry)
  /\ [](Outcomes = 1 => pc = "done")
  /\ <>[](Outcomes = 1 /\ pc = "done" /\ batch.inflight = {})

\* C14 witness: two lookups failed, every lookup has called back, and next
\* was called once
C14_Witness ==
  /\ pc = "done"
  /\ Cardinality(FailingLookups) >= 2
  /\ FailingLookups \subseteq 1..batch.index
  /\ batch.inflight = {}
  /\ Len(nextCalls) = 1
  /\ res.ended = 0

\* the entries handed to the gather that no longer exist
Vanished == {i \in 1..Len(files) : fs.kind[files[i]] = "ENOENT"}

\* the entry as a plain file
AsFile(e) == [name |-> e.name, stat |-> "file"]

\* C15: a per-entry lookup that fails because the entry no longer exists
\* does not fail the gather: the entry is stored at its input position with
\* absent metadata, the remaining lookups are all issued, and (no other
\* lookup failing) the listing is rendered with the entry placed as a
\* non-directory.
C15_VanishedTolerated ==
  /\ \A i \in Vanished :
       (pc # "reading" /\ i \in 1..Len(batch.results) /\ batch.results[i].set)
         => batch.results[i] = [set |-> TRUE, name |-> files[i], stat |-> "null"]
  /\ (Vanished # {} /\ FailingLookups = {} /\ pc \notin {"start", "probing", "reading"})
       => /\ batch.ended # "err"
          /\ nextCalls = <<>>
          /\ batch.inflight = {} => Cardinality(OpsOf({"entry"})) = Len(files)
          /\ batch.inflight = {}
               => /\ Responded \/ pc \in {"readStyle", "readTemplate"}
                  /\ Len(fileList) = Len(files)
                  /\ \A i \in Vanished :
                       \E b \in 1..Len(fileList) :
                         /\ fileList[b] = [name |-> files[i], stat |-> "null"]
                         /\ \A a \in 1..(b - 1) :
                              MayPrecede(fileList[a], AsFile(fileList[b]))
                         /\ \A a \in (b + 1)..Len(fileList) :
                              MayPrecede(AsFile(fileList[b]), fileList[a])

\* C15 witness: the tenth of eleven entries had vanished, the eleventh was
\* looked up all the same, and the listing was sent with directories before
\* the vanished entry
C15_Witness ==
  /\ Responded
  /\ Len(files) > Concurrency
  /\ Concurrency \in Vanished
  /\ Cardinality(OpsOf({"entry"})) = Len(files)
  /\ \E b \in 2..Len(fileList) :
       /\ fileList[b].name = files[Concurrency]
       /\ fileList[b].stat = "null"
       /\ fileList[1].stat = "dir"
       /\ fileList[b - 1].stat = "file"

\* the lookups that have called back
Completed == (1..Min(batch.index, batch.fns)) \ batch.inflight

\* the completion of a failing lookup while the gather is still going on
FirstFailure ==
  (~batch.done /\ batch'.done)
    => \E i \in batch.inflight :
         /\ batch'.inflight = batch.inflight \ {i}
         /\ i \in FailingLookups
         /\ Len(nextCalls') = 1
         /\ nextCalls'[1].err
         /\ nextCalls'[1].code = fs.kind[files[i]]

\* C16: when a per-entry lookup fails with an error other than ENOENT, the
\* gather ends with that error: next is called once, with the error of the
\* first such failure to complete; no listing, not even a partial one, is
\* rendered or sent; and the later completions of the lookups still in
\* flight change nothing.
C16_FailFast ==
  /\ [](pc \notin {"start", "probing", "reading"}
          => /\ batch.done <=> Completed \cap FailingLookups # {}
             /\ batch.done
                  => /\ pc = "done"
                     /\ Len(nextCalls) = 1
                     /\ fileList = <<>>
                     /\ res = InitRes
                     /\ OpsOf({"asset"}) = {})
  /\ [][FirstFailure]_vars
  /\ [][batch.done => UNCHANGED <<nextCalls, res, fileList, fsOps, pc, files, type>>]_vars

\* C16 witness: two lookups failed in different ways, EIO first; both have
\* called back and next holds the EIO error alone
C16_Witness ==
  /\ batch.done
  /\ batch.inflight = {}
  /\ \E i, j \in Completed :
       /\ fs.kind[files[i]] = "EIO"
       /\ fs.kind[files[j]] = "EACCES"
       /\ i > j
  /\ Len(nextCalls) = 1
  /\ nextCalls[1].code = "EIO"

\* ".." is in the list handed to stat-gathering
ParentHandedToStat ==
  pc \notin {"start", "probing", "reading"} /\ files # <<>> /\ files[1] = DotDot

\* the targets of the per-entry lookups issued so far, in order
EntryTargets ==
  LET ops == SelectSeq(fsOps, LAMBDA o : o.role = "entry")
  IN [i \in 1..Len(ops) |-> ops[i].target]

\* the directory above the listed one
ParentSegs == SubSeq(SegsOf(path), 1, Len(SegsOf(path)) - 1)

\* C17 as stated: when the synthetic ".." is in the list handed to
\* stat-gathering, no lookup is issued for it and its entry in the output
\* has absent metadata; lookups are issued for the real entries only.
C17_ParentNotLookedUp ==
  ParentHandedToStat
    => /\ \A i \in 1..Len(EntryTargets) : SegsOf(EntryTargets[i]) # ParentSegs
       /\ Len(EntryTargets) <= Len(files) - 1
       /\ batch.results[1].set => batch.results[1].stat = "null"

\* C17, amended: when the synthetic ".." is in the list handed to
\* stat-gathering (the html listing of a directory below the root), it is
\* looked up like every other entry: the first lookup issued is that of
\* path/.., the parent directory, which lies within the root; its entry in
\* the output carries the metadata the lookup found (absent only when the
\* parent is reported missing); exactly one lookup is issued per entry
\* started, the real entries following in list order.
C17_ParentLookedUp ==
  ParentHandedToStat
    => /\ type = "text/html" /\ BelowRoot
       /\ Len(EntryTargets) = Min(batch.index, Len(files))
       /\ SegsOf(EntryTargets[1]) = ParentSegs
       /\ Within(rootPath, EntryTargets[1])
       /\ \A i \in 2..Len(EntryTargets) :
            SegsOf(EntryTargets[i]) = Append(SegsOf(path), files[i])
       /\ batch.results[1].set
            => batch.results[1] =
                 [set |-> TRUE, name |-> DotDot,
                  stat |-> IF fs.kind[DotDot] = "ENOENT" THEN "null" ELSE fs.kind[DotDot]]

\* C17 witness: an html listing of a subdirectory was sent, ".." first as
\* a directory, after a lookup of the parent and of each of two entries
C17_Witness ==
  /\ Responded
  /\ ParentHandedToStat
  /\ fileList[1] = [name |-> DotDot, stat |-> "dir"]
  /\ Len(EntryTargets) = 3
  /\ SegsOf(EntryTargets[1]) = SegsOf(rootPath)

\* negotiation has taken place: a type was selected or 406 was passed on
NotAcceptable == \E i \in 1..Len(nextCalls) : nextCalls[i].status = {406}
NegotiationDone == type # "unset" \/ NotAcceptable

\* the gather and the final sort of the listing have completed
SortingDone == batch.ended = "ok" /\ Len(fileList) = Len(files)

\* the phase an operation belongs to
PhaseOf(role) ==
  CASE role = "probe" -> 1 [] role = "list" -> 2 [] role = "entry" -> 3
    [] role = "asset" -> 4

\* the request names no offered type
AcceptsNone ==
  /\ req.accept.present
  /\ \A i \in 1..Len(req.accept.ranges) :
       \/ req.accept.ranges[i].q = 0
       \/ \A t \in Offered : ~MatchesRange(t, req.accept.ranges[i])

\* C18 as stated: content negotiation, and so a 406 outcome, takes place
\* only after the per-entry stat-gathering and the final sort of the
\* listing have completed.
C18_NegotiationAfterSorting == NegotiationDone => SortingDone

\* C18, amended: the phases occur in the order Resolving, Probing, Listing
\* (read, filters, first sort), Negotiating, Statting, Sorting, Rendering:
\* negotiation takes place once the directory was read and before any
\* per-entry lookup is issued, so that a 406 outcome ends the request with
\* no lookup issued and nothing sorted; lookups are issued only for a
\* selected type, the final sort follows the gather, and rendering (the
\* asset reads and the response) follows the final sort.
C18_PhaseOrder ==
  /\ \A i, j \in 1..Len(fsOps) : i < j => PhaseOf(fsOps[i].role) <= PhaseOf(fsOps[j].role)
  /\ NegotiationDone
       => /\ pc \notin {"start", "probing", "reading"}
          /\ \E i \in 1..Len(fsOps) : fsOps[i] = ListOp(path, TRUE)
  /\ NotAcceptable
       => /\ pc = "done" /\ type = "unset"
          /\ Len(nextCalls) = 1 /\ res = InitRes
          /\ OpsOf({"entry", "asset"}) = {}
          /\ batch = NoBatch /\ fileList = <<>>
  /\ (AcceptsNone /\ pc \in {"statting", "readStyle", "readTemplate", "done"}
        /\ fs.probe = "dir" /\ fs.readdir.err = "ok" /\ IsGetOrHead)
       => NotAcceptable
  /\ OpsOf({"entry"}) # {} => type # "unset"
  /\ (fileList # <<>> \/ OpsOf({"asset"}) # {} \/ (res.ended > 0 /\ IsGetOrHead))
       => type # "unset" /\ SortingDone

\* C18 witness: a request accepting only application/xml on a directory
\* with entries ended as 406 right after the directory read
C18_Witness ==
  /\ NotAcceptable
  /\ pc = "done"
  /\ Len(files) >= 2
  /\ Len(fsOps) = 2
  /\ fsOps[2].role = "list"

\* ... and a type was selected while no lookup had called back yet
C18_WitnessStatting ==
  /\ pc = "statting"
  /\ type = "application/json"
  /\ Completed = {}
  /\ fileList = <<>>

\* the request path has an escape that cannot be decoded
BadEscape == "%" \in Range(req.url)

\* the joined path holds a NUL
HasNul == NUL \in Range(JoinedPath)

\* next was called once, with an error of this status, and nothing else
\* happened
OnlyError(status) ==
  /\ pc = "done"
  /\ nextCalls = <<[err |-> TRUE, code |-> "HttpError", status |-> {status}]>>
  /\ res = InitRes
  /\ fsOps = <<>>

\* C19: the checks are applied in the order method, percent-decoding, NUL,
\* confinement, and the first that fails decides alone: another method gets
\* 200/405 whatever its path; a GET with an undecodable path gets 400; a GET
\* whose decoded, normalized path holds a NUL gets 400 also when the path
\* lies outside the root; 403 goes only to decodable, NUL-free paths outside
\* the root.
C19_CheckOrder ==
  pc # "start"
    => /\ ~IsGetOrHead
            => /\ res.statusCode = (IF req.method = "OPTIONS" THEN 200 ELSE 405)
               /\ res.ended = 1
               /\ nextCalls = <<>> /\ fsOps = <<>> /\ pc = "done"
       /\ (IsGetOrHead /\ BadEscape) => OnlyError(400)
       /\ (IsGetOrHead /\ ~BadEscape /\ HasNul) => OnlyError(400)
       /\ (\E i \in 1..Len(nextCalls) : nextCalls[i].status = {403})
            => /\ IsGetOrHead /\ ~BadEscape /\ ~HasNul
               /\ ~Within(rootPath, JoinedPath)
               /\ OnlyError(403)
       /\ (IsGetOrHead /\ ~BadEscape /\ ~HasNul /\ ~Within(rootPath, JoinedPath))
            => OnlyError(403)

\* C19 witness: a GET whose decoded path holds a NUL and leaves the root
\* ended as 400
C19_Witness ==
  /\ req.method = "GET"
  /\ ~BadEscape /\ HasNul
  /\ ~Within(rootPath, JoinedPath)
  /\ OnlyError(400)

\* ... and a POST with an undecodable path ended as 405
C19_WitnessMethod ==
  /\ req.method = "POST"
  /\ BadEscape
  /\ res.statusCode = 405
  /\ pc = "done"

\* the directory was read and its entries were filtered
Listed ==
  /\ \E i \in 1..Len(fsOps) : fsOps[i].role = "list"
  /\ pc \notin {"reading", "uncaught"}
  /\ fs.readdir.err = "ok"

\* the entries passed on to sorting and stat-gathering (".." is the
\* renderer's)
RealFiles == IF files # <<>> /\ files[1] = DotDot THEN Tail(files) ELSE files

\* the i-th call of the predicate is for the i-th entry of the
\* hidden-filtered list
CalledFor(i) ==
  filterCalls[i] = [filename |-> Visible[i], index |-> i - 1, list |-> Visible,
                    path |-> JoinedPath]

\* C20: a predicate is invoked exactly once for each entry that survived
\* the hidden filter, in list order, with the name, the entry's index in the
\* hidden-filtered list, that list and the absolute path of the directory;
\* the entries passed on are exactly those it returned true for, none added,
\* duplicated or dropped; without a predicate every hidden-filtered entry
\* passes.
C20_Predicate ==
  /\ (Listed /\ filter.kind = "fn")
       => /\ Len(filterCalls) = Len(Visible)
          /\ \A i \in 1..Len(filterCalls) : CalledFor(i)
          /\ Len(RealFiles) = Len(Passed)
          /\ Range(RealFiles) = {Visible[i] : i \in {j \in 1..Len(Visible) :
                                                      Visible[j] \in filter.keep}}
  /\ (Listed /\ filter.kind = "none")
       => /\ filterCalls = <<>>
          /\ Len(RealFiles) = Len(Visible)
          /\ Range(RealFiles) = Range(Visible)
  /\ ~Listed
       => /\ Len(filterCalls) <= Len(Visible)
          /\ \A i \in 1..Len(filterCalls) : CalledFor(i)

\* C20 witness: with hidden entries dropped the predicate was called for
\* b.txt (index 0) and A (index 1) and only A was passed on
C20_Witness ==
  /\ Listed
  /\ filter.kind = "fn"
  /\ ~hidden
  /\ Len(fs.readdir.names) = 3
  /\ Len(filterCalls) = 2
  /\ filterCalls[1].filename = NameBtxt
  /\ filterCalls[2].filename = NameA /\ filterCalls[2].index = 1
  /\ RealFiles = <<NameA>>
  /\ type # "unset"

\* the predicate threw while the entries were being filtered
PredicateThrew ==
  /\ filter.kind = "fn"
  /\ pc \notin {"start", "probing", "reading"}
  /\ fs.probe = "dir" /\ fs.readdir.err = "ok" /\ IsGetOrHead
  /\ \E i \in 1..Len(Visible) : Visible[i] \in filter.throwsOn

\* C21: when the predicate throws while a directory's entries are being
\* filtered, the request ends in an error surfaced to the next handler: next
\* is called once, with the error; no response is written and no per-entry
\* lookup is issued.
C21_PredicateError ==
  PredicateThrew
    => /\ Len(nextCalls) = 1
       /\ nextCalls[1].err
       /\ res = InitRes
       /\ OpsOf({"entry"}) = {}

====
